---- MODULE Spec2Model ----
(***************************************************************************)
(* Model of package cloudflarebp (round_tripper.go): the round tripper     *)
(* returned by AddCloudFlareByPass, its header merge in RoundTrip and the  *)
(* TLS configuration it installs on an inner *http.Transport.              *)
(*                                                                         *)
(* Header names are sequences of one-character strings, so that the        *)
(* canonicalisation done by http.Header.Set is computed and not assumed.   *)
(* An http.Header is a function from names to sequences of values.         *)
(* A Go map is a reference: Options.Headers holds an index into heap.      *)
(***************************************************************************)
EXTENDS Naturals, Sequences, FiniteSets, TLC

VARIABLES
    base,          \* the capability the caller starts from (its client.Transport)
    transport,     \* the caller's *http.Transport: its TLSClientConfig field
    callerOptions, \* the Options value the caller holds and passes to the wrap
    heap,          \* the header mappings (Go maps) alive: heap[1] is the caller's
    decorators,    \* the cloudFlareRoundTripper values built so far, innermost first
    last           \* what the most recent operation did and returned

vars == <<base, transport, callerOptions, heap, decorators, last>>

\* The number of times the caller re-wraps its transport.
MaxDecorators == 2

----------------------------------------------------------------------------
(* Header names and net/textproto's canonical form, used by Header.Set     *)

lowerLetters == <<"a","b","c","d","e","f","g","h","i","j","k","l","m",
                  "n","o","p","q","r","s","t","u","v","w","x","y","z">>
upperLetters == <<"A","B","C","D","E","F","G","H","I","J","K","L","M",
                  "N","O","P","Q","R","S","T","U","V","W","X","Y","Z">>

IsLower(c) == \E i \in DOMAIN lowerLetters : lowerLetters[i] = c
IsUpper(c) == \E i \in DOMAIN upperLetters : upperLetters[i] = c

ToUpper(c) ==
    IF IsLower(c)
    THEN upperLetters[CHOOSE i \in DOMAIN lowerLetters : lowerLetters[i] = c]
    ELSE c

ToLower(c) ==
    IF IsUpper(c)
    THEN lowerLetters[CHOOSE i \in DOMAIN upperLetters : upperLetters[i] = c]
    ELSE c

\* A byte allowed in a header field name (of the characters the model uses:
\* letters and "-" are, the space is not).
validHeaderFieldByte(c) == IsLower(c) \/ IsUpper(c) \/ c = "-"

\* textproto.CanonicalMIMEHeaderKey: a name holding an invalid byte is returned
\* as it is; otherwise the first letter and every letter after "-" is made
\* upper case and every other letter lower case.
CanonicalMIMEHeaderKey(s) ==
    IF \E i \in DOMAIN s : ~validHeaderFieldByte(s[i])
    THEN s
    ELSE [i \in DOMAIN s |->
            IF i = 1 \/ s[i-1] = "-" THEN ToUpper(s[i]) ELSE ToLower(s[i])]

----------------------------------------------------------------------------
(* Data: header names, option values, TLS configurations                   *)

nAccept         == <<"A","c","c","e","p","t">>
nAcceptLower    == <<"a","c","c","e","p","t">>
nAcceptUpper    == <<"A","C","C","E","P","T">>
nAcceptLanguage == <<"A","c","c","e","p","t","-","L","a","n","g","u","a","g","e">>
nUserAgent      == <<"U","s","e","r","-","A","g","e","n","t">>
nUserAgentLower == <<"u","s","e","r","-","a","g","e","n","t">>

\* The header mapping built by GetDefaultOptions.
defaultHeaders ==
    (nAccept :> "text/html,application/xhtml+xml,application/xml;q=0.9,image/webp,image/apng,*/*;q=0.8")
    @@ (nAcceptLanguage :> "en-US,en;q=0.5")
    @@ (nUserAgent :> "Mozilla/5.0 (Windows NT 10.0; Win64; x64) AppleWebKit/537.36 (KHTML, like Gecko) Chrome/127.0.0.0 Safari/537.36 Edg/127.0.0.0")

\* GetDefaultOptions(): a fresh mapping each call; `at` is the heap index the
\* new mapping gets.
GetDefaultOptions(at) == [AddMissingHeaders |-> TRUE, Headers |-> at]

\* The zero value of tls.Config (the fields the model follows).
zeroTLSConfig ==
    [CurvePreferences |-> <<>>, RootCAs |-> "nil", MinVersion |-> 0,
     ServerName |-> "", InsecureSkipVerify |-> FALSE]

\* getCloudFlareTLSConfiguration(): a new tls.Config with only CurvePreferences set.
getCloudFlareTLSConfiguration ==
    [zeroTLSConfig EXCEPT
        !.CurvePreferences = <<"CurveP256", "CurveP384", "CurveP521", "X25519">>]

\* The part of a TLSClientConfig slot other than the curve preferences
\* (a nil *tls.Config means the defaults, i.e. the zero value).
ConfigOf(slot) == IF slot = <<>> THEN zeroTLSConfig ELSE slot[1]
OtherTLSSettings(slot) ==
    [ConfigOf(slot) EXCEPT !.CurvePreferences = <<>>]

\* Inputs ---------------------------------------------------------------
\* A TLSClientConfig the caller set up itself.
CallerTLSSlot ==
    <<[CurvePreferences |-> <<"X25519", "CurveP256">>, RootCAs |-> "corpCA",
       MinVersion |-> 771, ServerName |-> "example.com",
       InsecureSkipVerify |-> TRUE]>>

\* What the caller's transport may hold in TLSClientConfig before the wrap:
\* nil, its own configuration, or the configuration of an earlier wrap.
PriorTLSSlots == {<<>>, CallerTLSSlot, <<getCloudFlareTLSConfiguration>>}

\* The inner capabilities a caller can start from: no transport (nil interface),
\* an *http.Transport, another http.RoundTripper, a nil *http.Transport.
Bases == {"nil", "transport", "opaque", "nilTransport"}

\* The ways of passing the variadic options argument.
ArgForms == {"omitted", "emptySlice", "one", "several"}

OptNames  == {nAcceptLower, nAcceptUpper}
OptValues == {"v1", "v2"}

MapsOver(names, values) == UNION {[S -> values] : S \in SUBSET names}

\* The header collections of the requests sent: none, a canonical name, a
\* lower-case name (r.Header["accept"] = ...), several values under one name.
Requests ==
    { <<>>,
      (nUserAgent :> <<"custom">>),
      (nAcceptLower :> <<"foo">>),
      (nAccept :> <<"foo">>),
      (nAccept :> <<"foo", "bar">>) @@ (nUserAgentLower :> <<"custom">>) }

\* Every name the model uses, and the canonical form of each, computed once.
AllNames ==
    {nAccept, nAcceptLower, nAcceptUpper, nAcceptLanguage, nUserAgent, nUserAgentLower}
canonicalKey == [n \in AllNames |-> CanonicalMIMEHeaderKey(n)]

\* A faulty variant of HeaderSet: a plain map assignment h[key] = []string{value}.
HeaderSetAsSpelled(h, key, value) ==
    [x \in DOMAIN h \cup {key} |-> IF x = key THEN <<value>> ELSE h[x]]

\* A faulty variant of HeaderSet: Header.Add, which appends to the values already there.
HeaderAdd(h, key, value) ==
    [x \in DOMAIN h \cup {canonicalKey[key]} |->
        IF x = canonicalKey[key]
        THEN (IF x \in DOMAIN h THEN Append(h[x], value) ELSE <<value>>)
        ELSE h[x]]

\* http.Header.Set(key, value): h[CanonicalMIMEHeaderKey(key)] = []string{value}
HeaderSet(h, key, value) ==
    [x \in DOMAIN h \cup {canonicalKey[key]} |->
        IF x = canonicalKey[key] THEN <<value>> ELSE h[x]]

\* What the innermost transport answers: a response or an error.
Replies ==
    { [resp |-> "response200", err |-> "nil"],
      [resp |-> "nil", err |-> "ConnectionRefused"] }

\* What the innermost capability answers to a first call and to a second one
\* (the code makes no second call; a second one would be answered).
Attempts == {<<a, [resp |-> "response200", err |-> "nil"]>> : a \in Replies}

----------------------------------------------------------------------------
(* RoundTrip: the header merge                                             *)

\* Go visits the entries of a map in an unspecified order: every sequence that
\* holds each key once is a possible visit.
RECURSIVE Orders(_)
Orders(keys) ==
    IF keys = {}
    THEN {<<>>}
    ELSE UNION {{<<k>> \o o : o \in Orders(keys \ {k})} : k \in keys}

\* if _, ok := r.Header[header]; !ok { r.Header.Set(header, value) }
\* The lookup r.Header[header] is a plain map lookup on the name as spelled.
AddIfMissing(h, header, value) ==
    IF header \in DOMAIN h THEN h ELSE HeaderSet(h, header, value)

\* for header, value := range ug.options.Headers { ... }, visiting in `order`.
RECURSIVE RangeHeaders(_, _, _)
RangeHeaders(h, headers, order) ==
    IF order = <<>>
    THEN h
    ELSE RangeHeaders(AddIfMissing(h, Head(order), headers[Head(order)]),
                      headers, Tail(order))

\* A faulty variant of MergeHeaders: the flag is not consulted.
MergeHeadersAlways(addMissing, headers, h, order) ==
    RangeHeaders(h, headers, order)

\* A faulty variant of MergeHeaders: the loop is left after the first entry visited.
MergeHeadersFirstOnly(addMissing, headers, h, order) ==
    IF addMissing /\ order /= <<>>
    THEN AddIfMissing(h, Head(order), headers[Head(order)])
    ELSE h

\* if ug.options.AddMissingHeaders { for ... }
MergeHeaders(addMissing, headers, h, order) ==
    IF addMissing THEN RangeHeaders(h, headers, order) ELSE h

\* The headers decorator i leaves on a request that arrived with headers h,
\* for one visiting order of its mapping.
HeadersOf(i) == heap[decorators[i].options.Headers]
MergeAt(i, h, order) ==
    MergeHeaders(decorators[i].options.AddMissingHeaders, HeadersOf(i), h, order)

\* What decorator i can leave on a request that arrived with headers h: one
\* result for every visiting order of its mapping.
Outs(i, h) == {MergeAt(i, h, o) : o \in Orders(DOMAIN HeadersOf(i))}

\* The header collections handed down when decorator i gets a request with
\* headers h: first what i hands to its inner, then what that inner (when it is
\* a decorator too) hands on, down to the innermost capability. One sequence
\* for every choice of visiting orders.
RECURSIVE Passed(_, _)
Passed(i, h) ==
    UNION {
        IF decorators[i].inner.kind = "decorator"
        THEN {<<out>> \o t : t \in Passed(decorators[i].inner.index, out)}
        ELSE {<<out>>}
        : out \in Outs(i, h) }

----------------------------------------------------------------------------
(* RoundTrip: the delegation                                               *)

\* A faulty variant of Delegate: a failed call is made once more.
DelegateRetry(attempts) ==
    IF attempts[1].err /= "nil" /\ Len(attempts) > 1
    THEN [attempts[2] EXCEPT !.calls = attempts[1].calls + attempts[2].calls]
    ELSE attempts[1]

\* return ug.inner.RoundTrip(r) (and the nil-inner fallback's
\* return (&http.Transport{...}).RoundTrip(r)): `attempts` are the outcomes the
\* inner would give to successive calls; the code makes one call and returns
\* its pair as it is.
Delegate(attempts) == attempts[1]

\* What decorator i returns, and how often the innermost capability is invoked,
\* when that capability answers successive calls with `replies`.
RECURSIVE Serve(_, _)
Serve(i, replies) ==
    LET inner == decorators[i].inner
        attempts ==
            [k \in DOMAIN replies |->
                IF inner.kind = "decorator"
                THEN Serve(inner.index, SubSeq(replies, k, Len(replies)))
                ELSE [calls |-> 1, resp |-> replies[k].resp, err |-> replies[k].err]]
    IN  Delegate(attempts)

\* The transport RoundTrip builds when ug.inner == nil:
\* &http.Transport{TLSClientConfig: getCloudFlareTLSConfiguration()}
FallbackTransport(inner) ==
    IF inner.kind = "nil"
    THEN <<[TLSClientConfig |-> <<getCloudFlareTLSConfiguration>>]>>
    ELSE <<>>

\* A faulty variant of RoundTripTLS: the configuration is installed on every request.
RoundTripTLSRewrite(t) ==
    [transport |-> [TLSClientConfig |-> <<getCloudFlareTLSConfiguration>>],
     writes |-> 1]

\* A faulty variant of RoundTripHeap: RoundTrip rewrites its mapping with canonical names.
RoundTripHeapCanonicalise(hp, i) ==
    LET at == decorators[i].options.Headers
        m  == hp[at]
    IN  [hp EXCEPT ![at] =
            [k \in {canonicalKey[n] : n \in DOMAIN m} |->
                m[CHOOSE n \in DOMAIN m : canonicalKey[n] = k]]]

\* RoundTrip's effect on the inner *http.Transport's TLSClientConfig: none.
RoundTripTLS(t) == [transport |-> t, writes |-> 0]

\* RoundTrip's effect on the mappings of the heap: it only reads options.Headers.
RoundTripHeap(hp, i) == hp

----------------------------------------------------------------------------
(* AddCloudFlareByPass                                                     *)

\* if trans, ok := inner.(*http.Transport); ok {
\*     trans.TLSClientConfig = getCloudFlareTLSConfiguration() }
\* A nil *http.Transport passes the type assertion and the assignment then
\* dereferences nil.
WrapTLS(inner, t) ==
    CASE inner.kind = "transport" ->
            [transport |-> [TLSClientConfig |-> <<getCloudFlareTLSConfiguration>>],
             writes |-> 1, panic |-> FALSE]
      [] inner.kind = "nilTransport" ->
            [transport |-> t, writes |-> 0, panic |-> TRUE]
      [] OTHER ->
            [transport |-> t, writes |-> 0, panic |-> FALSE]

\* The variadic parameter as the function sees it: <<>> stands for a nil slice
\* (argument omitted), <<"empty">> for a non-nil slice of length 0.
OptionsSlice(form, supplied) ==
    CASE form = "omitted"    -> [isNil |-> TRUE,  items |-> <<>>]
      [] form = "emptySlice" -> [isNil |-> FALSE, items |-> <<>>]
      [] form = "one"        -> [isNil |-> FALSE, items |-> <<supplied>>]
      [] form = "several"    ->
            [isNil |-> FALSE,
             items |-> <<supplied,
                         [supplied EXCEPT !.AddMissingHeaders = ~supplied.AddMissingHeaders]>>]

\* if options != nil { roundTripper.options = options[0] }
\* else { roundTripper.options = GetDefaultOptions() }
\* options[0] on a slice of length 0 is an index-out-of-range panic.
ChooseOptions(slice, at) ==
    IF ~slice.isNil
    THEN IF Len(slice.items) = 0
         THEN [panic |-> TRUE, fresh |-> FALSE, options |-> GetDefaultOptions(at)]
         ELSE [panic |-> FALSE, fresh |-> FALSE, options |-> slice.items[1]]
    ELSE [panic |-> FALSE, fresh |-> TRUE, options |-> GetDefaultOptions(at)]

----------------------------------------------------------------------------
(* The state machine                                                       *)

NoReply == [resp |-> "nil", err |-> "nil"]

\* The record of an operation that is no RoundTrip and no wrap.
Quiet(op) ==
    [op |-> op, outcome |-> "ok", args |-> "none", inner |-> "none",
     decorator |-> 0, before |-> <<>>, passed |-> <<>>, calls |-> 0,
     reply |-> NoReply, resp |-> "nil", err |-> "nil",
     tlsWrites |-> 0, fallback |-> <<>>]

\* The capability the caller currently uses as its transport, which is what it
\* passes to the next wrap: the outermost decorator, or `base` before any wrap.
Current ==
    IF decorators = <<>>
    THEN [kind |-> base, index |-> 0]
    ELSE [kind |-> "decorator", index |-> Len(decorators)]

Init ==
    /\ base \in Bases
    /\ transport \in [TLSClientConfig : IF base = "transport" THEN PriorTLSSlots
                                                              ELSE {CallerTLSSlot}]
    /\ callerOptions \in [AddMissingHeaders : BOOLEAN, Headers : {1}]
    /\ heap \in {<<m>> : m \in MapsOver(OptNames, OptValues)}
    /\ decorators = <<>>
    /\ last = Quiet("none")

\* AddCloudFlareByPass(Current, options...) with the options passed as `form`.
AddCloudFlareByPass(form) ==
    LET inner  == Current
        tls    == WrapTLS(inner, transport)
        chosen == ChooseOptions(OptionsSlice(form, callerOptions), Len(heap) + 1)
        panic  == tls.panic \/ chosen.panic
    IN  /\ panic \/ Len(decorators) < MaxDecorators
        /\ transport' = tls.transport
        /\ decorators' =
              IF panic THEN decorators
              ELSE Append(decorators, [inner |-> inner, options |-> chosen.options])
        /\ heap' = IF ~panic /\ chosen.fresh THEN Append(heap, defaultHeaders) ELSE heap
        /\ last' = [Quiet("Wrap") EXCEPT
                        !.outcome = IF panic THEN "panic" ELSE "ok",
                        !.args = form,
                        !.inner = inner.kind,
                        !.decorator = IF panic THEN 0 ELSE Len(decorators) + 1,
                        !.tlsWrites = tls.writes]
        /\ UNCHANGED <<base, callerOptions>>

\* decorators[i].RoundTrip(r) for a request with headers r: the mapping is
\* visited in some order at every layer (handing down `t`), and the innermost
\* capability answers successive calls with `replies`.
RoundTrip(i, r) ==
    \E t \in Passed(i, r), replies \in Attempts :
        LET served == Serve(i, replies)
            tls    == RoundTripTLS(transport)
        IN  /\ transport' = tls.transport
            /\ heap' = RoundTripHeap(heap, i)
            /\ last' = [Quiet("RoundTrip") EXCEPT
                            !.inner = decorators[i].inner.kind,
                            !.decorator = i,
                            !.before = r,
                            !.passed = t,
                            !.calls = served.calls,
                            !.reply = replies[1],
                            !.resp = served.resp,
                            !.err = served.err,
                            !.tlsWrites = tls.writes,
                            !.fallback = FallbackTransport(decorators[1].inner)]
            /\ UNCHANGED <<base, callerOptions, decorators>>

\* The caller writes an entry of the mapping it holds: opts.Headers[n] = v.
CallerSet(n, v) ==
    /\ ~(n \in DOMAIN heap[1] /\ heap[1][n] = v)
    /\ heap' = [heap EXCEPT ![1] = (n :> v) @@ heap[1]]
    /\ last' = Quiet("CallerSet")
    /\ UNCHANGED <<base, transport, callerOptions, decorators>>

\* The caller deletes an entry of the mapping it holds: delete(opts.Headers, n).
CallerDelete(n) ==
    /\ n \in DOMAIN heap[1]
    /\ heap' = [heap EXCEPT ![1] = [x \in DOMAIN heap[1] \ {n} |-> heap[1][x]]]
    /\ last' = Quiet("CallerDelete")
    /\ UNCHANGED <<base, transport, callerOptions, decorators>>

Next ==
    \/ \E form \in ArgForms : AddCloudFlareByPass(form)
    \/ \E i \in DOMAIN decorators, r \in Requests : RoundTrip(i, r)
    \/ \E n \in OptNames, v \in OptValues : CallerSet(n, v)
    \/ \E n \in OptNames : CallerDelete(n)

Spec == Init /\ [][Next]_vars

----------------------------------------------------------------------------
(* Vocabulary of the properties                                            *)

\* The layers a RoundTrip went through: position j of last.passed belongs to
\* decorator LayerAt(j), which received In(j) and handed Out(j) to its inner.
Layers     == DOMAIN last.passed
LayerAt(j) == last.decorator - j + 1
In(j)      == IF j = 1 THEN last.before ELSE last.passed[j - 1]
Out(j)     == last.passed[j]
FlagAt(j)  == decorators[LayerAt(j)].options.AddMissingHeaders
MapAt(j)   == HeadersOf(LayerAt(j))

\* h carries the header name n, letter case aside.
HasHeader(h, n) == \E k \in DOMAIN h : canonicalKey[k] = canonicalKey[n]

\* No two names of the mapping differ in letter case only.
DistinctNames(m) ==
    \A a, b \in DOMAIN m : canonicalKey[a] = canonicalKey[b] => a = b

FixedCurves == <<"CurveP256", "CurveP384", "CurveP521", "X25519">>

----------------------------------------------------------------------------
(* C1 *)

\* C1: with addMissingHeaders = true, RoundTrip never changes a header the
\* request already carries, presence being decided without regard to letter
\* case: every entry of the outgoing collection whose name the incoming
\* collection carried is an entry of the incoming collection, value unchanged
\* (so no configured value appears under that name), and no entry is lost.
C1_ExistingHeadersKept ==
    last.op = "RoundTrip" =>
        \A j \in Layers :
            FlagAt(j) =>
                /\ \A k \in DOMAIN In(j) : k \in DOMAIN Out(j)
                /\ \A k \in DOMAIN Out(j) :
                      HasHeader(In(j), k) => k \in DOMAIN In(j) /\ Out(j)[k] = In(j)[k]

----------------------------------------------------------------------------
(* C2 *)

\* The entries GetDefaultOptions must give a request that has no headers.
ExpectedDefaultEntries ==
    (nAccept :> <<"text/html,application/xhtml+xml,application/xml;q=0.9,image/webp,image/apng,*/*;q=0.8">>)
    @@ (nAcceptLanguage :> <<"en-US,en;q=0.5">>)
    @@ (nUserAgent :> <<"Mozilla/5.0 (Windows NT 10.0; Win64; x64) AppleWebKit/537.36 (KHTML, like Gecko) Chrome/127.0.0.0 Safari/537.36 Edg/127.0.0.0">>)

\* What C2 asks of layer j: every configured name is carried by the outgoing
\* collection, and a name the incoming collection did not carry has exactly
\* its configured value.
ConfiguredPresent(j) ==
    \A n \in DOMAIN MapAt(j) :
        /\ HasHeader(Out(j), n)
        /\ ~HasHeader(In(j), n) =>
              /\ canonicalKey[n] \in DOMAIN Out(j)
              /\ Out(j)[canonicalKey[n]] = <<MapAt(j)[n]>>

\* C2 as stated: for every request and every Options with addMissingHeaders =
\* true, what RoundTrip hands to its inner carries every configured name, each
\* name absent before with exactly its configured value.
C2_AllConfiguredPresent ==
    last.op = "RoundTrip" =>
        \A j \in Layers : FlagAt(j) => ConfiguredPresent(j)

\* C2 (amended): the same for every Options in whose mapping no two names
\* differ in letter case only; and a request without headers sent through the
\* default Options ends with exactly the three default entries.
C2_ConfiguredPresentWhenNamesDistinct ==
    last.op = "RoundTrip" =>
        \A j \in Layers :
            /\ FlagAt(j) /\ DistinctNames(MapAt(j)) => ConfiguredPresent(j)
            /\ FlagAt(j) /\ MapAt(j) = defaultHeaders /\ In(j) = <<>>
                  => Out(j) = ExpectedDefaultEntries

\* A request without headers went through the default Options, and another
\* mapping with a lower-case name filled in a missing header.
C2_Witness ==
    /\ last.op = "RoundTrip"
    /\ \E j \in Layers :
          /\ FlagAt(j) /\ DistinctNames(MapAt(j))
          /\ nAcceptLower \in DOMAIN MapAt(j)
          /\ ~HasHeader(In(j), nAcceptLower)
          /\ Out(j)[nAccept] = <<MapAt(j)[nAcceptLower]>>

----------------------------------------------------------------------------
(* C3 *)

\* C3: with addMissingHeaders = false the header collection RoundTrip hands to
\* its inner is the one it received, whatever the mapping holds.
C3_NoHeadersWhenDisabled ==
    last.op = "RoundTrip" =>
        \A j \in Layers : ~FlagAt(j) => Out(j) = In(j)

\* A decorator with addMissingHeaders = false and a non-empty mapping, none of
\* whose names the request carried, handled a request.
C3_Witness ==
    /\ last.op = "RoundTrip"
    /\ \E j \in Layers :
          /\ ~FlagAt(j)
          /\ MapAt(j) /= <<>>
          /\ \A n \in DOMAIN MapAt(j) : ~HasHeader(In(j), n)

----------------------------------------------------------------------------
(* C4 *)

\* C4: wrapping a transport overwrites only the curve preferences of its TLS
\* configuration: every other setting has the value it had before the wrap.
C4_OtherTLSSettingsKept ==
    [][ (last'.op = "Wrap" /\ last'.inner = "transport") =>
            OtherTLSSettings(transport'.TLSClientConfig)
                = OtherTLSSettings(transport.TLSClientConfig) ]_vars

----------------------------------------------------------------------------
(* C5 *)

\* C5: the inner transport's TLS configuration is written once per wrap and
\* only when the inner is an *http.Transport: after the wrap, and after any
\* RoundTrip, its curve preferences are exactly P-256, P-384, P-521, X25519;
\* no RoundTrip writes it; a wrap of anything else writes nothing.
C5_TLSWrittenOnceAtWrap ==
    /\ [](base = "transport" /\ decorators /= <<>> =>
            /\ transport.TLSClientConfig /= <<>>
            /\ transport.TLSClientConfig[1].CurvePreferences = FixedCurves)
    /\ [][ /\ last'.op = "RoundTrip" =>
                last'.tlsWrites = 0 /\ transport' = transport
           /\ (last'.op = "Wrap" /\ last'.inner = "transport") =>
                /\ last'.tlsWrites = 1
                /\ transport'.TLSClientConfig /= <<>>
                /\ transport'.TLSClientConfig[1].CurvePreferences = FixedCurves
           /\ (last'.op = "Wrap" /\ last'.inner /= "transport") =>
                last'.tlsWrites = 0 /\ transport' = transport ]_vars

\* A request went through a decorator wrapped around the caller's transport.
C5_Witness ==
    /\ last.op = "RoundTrip"
    /\ base = "transport"
    /\ transport.TLSClientConfig[1].CurvePreferences = FixedCurves

----------------------------------------------------------------------------
(* C6 *)

\* C6: AddCloudFlareByPass cannot fail: for a transport, an opaque sender, no
\* inner at all or another decorator, and however the options are passed, it
\* returns a decorator whose options are the supplied ones when one was
\* supplied and the default ones otherwise.
C6_WrapNeverFails ==
    (last.op = "Wrap" /\ last.inner /= "nilTransport") =>
        /\ last.outcome = "ok"
        /\ last.decorator = Len(decorators)
        /\ LET options == decorators[last.decorator].options
           IN  IF last.args \in {"one", "several"}
               THEN options = callerOptions
               ELSE /\ options.AddMissingHeaders
                    /\ options.Headers /= callerOptions.Headers
                    /\ heap[options.Headers] = defaultHeaders

----------------------------------------------------------------------------
(* C7 *)

\* C7: a decorator that has an inner transport invokes it exactly once per
\* RoundTrip and returns exactly the pair the inner returned.
C7_DelegatesOnceUnmodified ==
    (last.op = "RoundTrip" /\ decorators[last.decorator].inner.kind /= "nil") =>
        /\ last.calls = 1
        /\ last.resp = last.reply.resp
        /\ last.err = last.reply.err

\* The inner transport refused the connection.
C7_Witness ==
    /\ last.op = "RoundTrip"
    /\ base /= "nil"
    /\ last.reply.err = "ConnectionRefused"
    /\ last.err = "ConnectionRefused"
    /\ last.resp = "nil"

----------------------------------------------------------------------------
(* C8 *)

----------------------------------------------------------------------------
(* C9 *)

\* Every visiting order of layer j's mapping gives what the one taken gave.
OrderIrrelevant(j) ==
    \A o \in Orders(DOMAIN MapAt(j)) : MergeAt(LayerAt(j), In(j), o) = Out(j)

\* C9 as stated: the result of the merge does not depend on the order in which
\* the entries of options.Headers are visited, for every request and every
\* Options, mappings with two names that differ in letter case only included.
C9_OrderIndependent ==
    last.op = "RoundTrip" => \A j \in Layers : OrderIrrelevant(j)

\* C9 (amended): the result of the merge does not depend on the visiting order
\* for every request and every Options in whose mapping no two names differ in
\* letter case only.
C9_OrderIndependentWhenNamesDistinct ==
    last.op = "RoundTrip" =>
        \A j \in Layers : DistinctNames(MapAt(j)) => OrderIrrelevant(j)

\* A mapping of three names, visited in one of six orders, filled in headers.
C9_Witness ==
    /\ last.op = "RoundTrip"
    /\ \E j \in Layers :
          /\ FlagAt(j) /\ DistinctNames(MapAt(j))
          /\ Cardinality(DOMAIN MapAt(j)) = 3
          /\ Cardinality(DOMAIN Out(j)) >= Cardinality(DOMAIN In(j)) + 2

----------------------------------------------------------------------------
(* C10 *)

\* Decorators i and k were built with the same Options.
SameOptions(i, k) ==
    /\ decorators[i].options.AddMissingHeaders = decorators[k].options.AddMissingHeaders
    /\ HeadersOf(i) = HeadersOf(k)

\* What the inner of decorator i can receive when a request with headers h is
\* sent to decorator top, i <= top.
Received(top, i, h) == {t[top - i + 1] : t \in Passed(top, h)}

\* C10: two layers with the same Options hand their inner transport what one
\* such layer hands it, and invoke it once. For a request that went through
\* decorator L+1 and then L, built with the same Options: what L's inner got
\* is something L alone hands over for that request; for a request that went
\* through L alone, with the same Options on L+1: what L's inner got is
\* something the two layers hand over; and the innermost capability was
\* invoked exactly once.
C10_RewrapEquivalent ==
    last.op = "RoundTrip" =>
        /\ last.calls = 1
        /\ \A j \in Layers :
              LET L == LayerAt(j)
              IN  /\ (L >= 2 /\ SameOptions(L, L - 1)) =>
                        Out(j + 1) \in Received(L - 1, L - 1, In(j))
                  /\ (j = 1 /\ L + 1 \in DOMAIN decorators /\ SameOptions(L + 1, L)) =>
                        Out(j) \in Received(L + 1, L, In(j))

\* A request went through two layers built with the same Options, which have a
\* lower-case name, and a header was filled in.
C10_Witness ==
    /\ last.op = "RoundTrip"
    /\ last.decorator >= 2
    /\ SameOptions(last.decorator, last.decorator - 1)
    /\ FlagAt(1)
    /\ nAcceptLower \in DOMAIN MapAt(1)
    /\ Out(1) /= In(1)
    /\ Out(2) = Out(1)

====
